---- MODULE Spec2Model ----
(***************************************************************************)
(* MP_REACH_NLRI decoder of Server/src/parseBgpLibMpReach.cpp.             *)
(*                                                                         *)
(* One call of MPReachAttr::parseReachNlriAttr is modelled as a sequence   *)
(* of steps: the header decode with the AFI/SAFI dispatch, then one step   *)
(* per prefix of the unicast loop, or, for labeled unicast, one step for   *)
(* the start of a prefix, one per pass of the label loop and one for the   *)
(* address part.  The payload is revealed as the decoder reads it: every   *)
(* byte the code reads is an input drawn from a small set, whether it lies *)
(* inside the declared attribute length or past it.                        *)
(*                                                                         *)
(* Memory is little-endian, bit-fields are allocated from the least        *)
(* significant bit (the x86 / GCC build of the program).                   *)
(***************************************************************************)
EXTENDS Integers, Sequences, FiniteSets, TLC

VARIABLES
    pc,         \* position: "idle", "uni", "lab", "label", "addr", "done", "crashed"
    update,     \* the caller's parsed_update: attrs and nlri_list
    pre,        \* the caller's update when the current call started
    attr_len,   \* declared attribute length handed to the current call
    addpath,    \* answer of parser->getAddpathCapability for this call
    hdr,        \* mp_reach_nlri header struct of the current call
    isIPv4,     \* address family flag handed down by parseAfi
    len,        \* uint16_t len of the NLRI decoder
    read_size,  \* loop counter of the NLRI decoder
    pos,        \* data pointer, as an offset from the payload start
    plen_at,    \* offset the prefix length byte of the current prefix was read at
    nlri,       \* the decoder's local parse_bgp_lib_nlri
    path_id,    \* uint32_t path_id
    prefix_len, \* u_char prefix_len
    addr_bytes, \* addr_bytes (u_char in the unicast decoder, int in the labeled)
    label,      \* the 4 bytes of the mpls_label union, in memory order
    ip_raw,     \* u_char ip_raw[16]
    copied,     \* number of bytes of the last memcpy into ip_raw
    mem,        \* payload bytes revealed so far, mem[i+1] is offset i
    rd,         \* offsets read so far by the current call
    ub,         \* the current call has read or written out of bounds
    declared,   \* sum of the declared lengths of the calls made so far
    calls,      \* number of calls made so far on the update
    limit       \* the calls and the declared bytes a behaviour is explored to

vars == <<pc, update, pre, attr_len, addpath, hdr, isIPv4, len, read_size, pos,
          plen_at,
          nlri, path_id, prefix_len, addr_bytes, label, ip_raw, copied, mem,
          rd, ub, declared, calls, limit>>

---------------------------------------------------------------------------
\* Bounds of the model

\* declared attribute length of a call on a fresh update
MaxAttrLen == 15
\* number of calls made on one update, and the total of their declared lengths
MaxCalls == 2
MaxSeqLen == 10

---------------------------------------------------------------------------
\* Program constants

BGP_AFI_IPV4 == 1
BGP_AFI_IPV6 == 2
BGP_AFI_BGPLS == 16388
BGP_SAFI_UNICAST == 1
BGP_SAFI_NLRI_LABEL == 4
\* sizeof(ip_raw)
IP_RAW_SIZE == 16
\* the withdrawn label compared against label.data, 0x80000000, as the four
\* bytes of a uint32_t in memory
WITHDRAWN_LABEL == <<0, 0, 0, 128>>
\* int parsed_bytes = 0, never assigned again
parsed_bytes == 0

---------------------------------------------------------------------------
\* Input sets: the values the payload bytes are drawn from

\* the two AFI octets: IPv4, IPv6, BGP-LS (0x4004), and an unknown AFI
AfiOctets == {<<0, 1>>, <<0, 2>>, <<64, 4>>, <<0, 3>>}
\* the SAFI octet: unicast, labeled unicast, and an unsupported SAFI
SafiOctets == {BGP_SAFI_UNICAST, BGP_SAFI_NLRI_LABEL, 128}
\* the next-hop length octet
NhLens == {0, 4, 17}
\* first octet of a next hop; the following octets count up from it
NhStarts == {10}
\* the reserved octet
ReservedOctets == {0}
\* the four octets of a path identifier
PathIdOctets == {<<0, 0, 0, 7>>, <<1, 0, 0, 2>>}
\* the prefix length octet
PrefixLens == {0, 20, 32, 72, 136}
\* the three octets of a label: value 16 with bottom-of-stack, value 65537
\* without, and the withdrawn label 0x800000
LabelOctets == {<<0, 1, 1>>, <<16, 0, 16>>, <<128, 0, 0>>}
\* first octet of a prefix address; the following octets count up from it
AddrStarts == {192}

\* n octets counting up from a
Run(a, n) == [j \in 1..n |-> (a + j - 1) % 256]

---------------------------------------------------------------------------
\* Helpers of the decoder

\* SWAP_BYTES: reverses the bytes of the object in place
SWAP_BYTES(b) == [i \in 1..Len(b) |-> b[Len(b) + 1 - i]]

\* value of an unsigned integer object from its bytes in memory (little-endian)
RECURSIVE HostValue(_)
HostValue(b) ==
    IF Len(b) = 0 THEN 0 ELSE b[1] + 256 * HostValue(Tail(b))

\* operator<< of an unsigned integer into an ostringstream: its decimal digits
RECURSIVE Digits(_)
Digits(n) ==
    IF n < 10 THEN <<n>> ELSE Append(Digits(n \div 10), n % 10)

\* bzero(ip_raw, sizeof(ip_raw))
ZeroRaw == [i \in 1..IP_RAW_SIZE |-> 0]

\* memcpy(ip_raw, src, n) into a zeroed ip_raw: the bytes that land inside the
\* array (the bytes past its end are written outside it)
CopyRaw(src, n) ==
    [i \in 1..IP_RAW_SIZE |-> IF i <= n /\ i <= Len(src) THEN src[i] ELSE 0]

\* inet_ntop: AF_INET renders the first 4 bytes as decimal octets, AF_INET6 the
\* 16 bytes as eight 16-bit groups
inet_ntop(v4, raw) ==
    IF v4
    THEN [af |-> "AF_INET", text |-> [i \in 1..4 |-> Digits(raw[i])]]
    ELSE [af |-> "AF_INET6",
          text |-> [i \in 1..8 |-> raw[2 * i - 1] * 256 + raw[2 * i]]]

\* addr_bytes = prefix_len / 8; if (prefix_len % 8) ++addr_bytes
AddrBytes(pl) == (pl \div 8) + (IF pl % 8 # 0 THEN 1 ELSE 0)

\* the bit-fields of mpls_label.decode over the four bytes lb of the union:
\* ttl is bits 0-7, bos bit 8, exp bits 9-11, value bits 12-31 of label.data
LabelTtl(lb) == lb[1]
LabelBos(lb) == lb[2] % 2
LabelExp(lb) == (lb[2] \div 2) % 8
LabelValue(lb) == (lb[2] \div 16) + 16 * lb[3] + 4096 * lb[4]

\* a default-constructed parse_bgp_lib_nlri: no value under any key
EmptyNlri ==
    [afi |-> 0, safi |-> 0, type |-> "NLRI_TYPE_NONE",
     PATH_ID |-> <<>>, PREFIX_LENGTH |-> <<>>, PREFIX |-> <<>>,
     PREFIX_BIN |-> <<>>, LABELS |-> <<>>]

\* a parsed_update before any attribute is parsed
EmptyUpdate == [attrs |-> [k \in {} |-> <<>>], nlri_list |-> <<>>]

\* update.attrs[LIB_ATTR_NEXT_HOP]: official_type and attr_name are assigned,
\* the text is pushed onto the back of attr_value
SetNextHop(attrs, text) ==
    LET old == IF "LIB_ATTR_NEXT_HOP" \in DOMAIN attrs
               THEN attrs["LIB_ATTR_NEXT_HOP"].attr_value
               ELSE <<>>
    IN  [k \in DOMAIN attrs \cup {"LIB_ATTR_NEXT_HOP"} |->
            IF k = "LIB_ATTR_NEXT_HOP"
            THEN [official_type |-> "ATTR_TYPE_NEXT_HOP",
                  attr_name |-> "nextHop",
                  attr_value |-> Append(old, text)]
            ELSE attrs[k]]

NoHdr == [afi |-> 0, safi |-> 0, nh_len |-> 0, reserved |-> 0]

Running == {"uni", "lab", "label", "addr"}

---------------------------------------------------------------------------
\* State after construction: an update nothing was parsed into yet

Init ==
    /\ pc = "idle"
    /\ update = EmptyUpdate
    /\ pre = EmptyUpdate
    /\ attr_len = 0
    /\ addpath = FALSE
    /\ hdr = NoHdr
    /\ isIPv4 = FALSE
    /\ len = 0
    /\ read_size = 0
    /\ pos = 0
    /\ plen_at = 0
    /\ nlri = EmptyNlri
    /\ path_id = 0
    /\ prefix_len = 0
    /\ addr_bytes = 0
    /\ label = <<0, 0, 0, 0>>
    /\ ip_raw = ZeroRaw
    /\ copied = 0
    /\ mem = <<>>
    /\ rd = {}
    /\ ub = FALSE
    /\ declared = 0
    /\ calls = 0
    /\ limit = [calls |-> 1, total |-> MaxAttrLen]

\* the same start, explored over several calls on the update
InitSeq ==
    /\ pc = "idle"
    /\ update = EmptyUpdate
    /\ pre = EmptyUpdate
    /\ attr_len = 0
    /\ addpath = FALSE
    /\ hdr = NoHdr
    /\ isIPv4 = FALSE
    /\ len = 0
    /\ read_size = 0
    /\ pos = 0
    /\ plen_at = 0
    /\ nlri = EmptyNlri
    /\ path_id = 0
    /\ prefix_len = 0
    /\ addr_bytes = 0
    /\ label = <<0, 0, 0, 0>>
    /\ ip_raw = ZeroRaw
    /\ copied = 0
    /\ mem = <<>>
    /\ rd = {}
    /\ ub = FALSE
    /\ declared = 0
    /\ calls = 0
    /\ limit = [calls |-> MaxCalls, total |-> MaxSeqLen]

\* offsets n .. n+k-1
Offsets(n, k) == n .. (n + k - 1)

\* some offset of s lies outside the declared attribute
OutOfBounds(s, alen) == \E o \in s : o >= alen

---------------------------------------------------------------------------
\* parseReachNlriAttr up to the NLRI loop: the header decode, the length check,
\* parseAfi, parseAfi_IPv4IPv6 and the preamble of the NLRI decoder it calls

\* the position the call is left at once parseAfi_IPv4IPv6 hands the NLRI
\* span of length n to a decoder: both return at once on len <= 0
EnterNlri(safi, n) ==
    IF n <= 0 THEN "done"
    ELSE IF safi = BGP_SAFI_UNICAST THEN "uni" ELSE "lab"

\* the length check letting through a header that runs one byte past the
\* attribute
LengthMismatchOffByOne(left) == left < -1

\* if (attr_len < 0) return, on the length left after the header
LengthMismatch(left) == left < 0

\* parseAfi: IPv6 and IPv4 go on to parseAfi_IPv4IPv6, BGP-LS breaks out
\* with nothing done, any other AFI returns
parseAfi(afi) ==
    CASE afi = BGP_AFI_IPV6 -> "ipv4ipv6"
      [] afi = BGP_AFI_IPV4 -> "ipv4ipv6"
      [] afi = BGP_AFI_BGPLS -> "skip"
      [] OTHER -> "skip"

\* the AFI and SAFI pairs parseAfi and parseAfi_IPv4IPv6 decode
Supported(afi, safi) ==
    /\ parseAfi(afi) = "ipv4ipv6"
    /\ safi \in {BGP_SAFI_UNICAST, BGP_SAFI_NLRI_LABEL}

parseReachNlriAttr(alen, ap, afiOct, safi, nhl, nhs, rsv) ==
    LET afi  == HostValue(SWAP_BYTES(afiOct))
        nh   == Run(nhs, nhl)
        left == alen - 2 - 1 - 1 - nhl - 1
        hrd  == Offsets(0, 4) \cup {4 + nhl}
        go   == ~LengthMismatch(left) /\ Supported(afi, safi)
        n    == left % 65536
        raw  == CopyRaw(nh, IF nhl > 16 THEN 16 ELSE nhl)
        nrd  == Offsets(4, IF nhl > 16 THEN 16 ELSE nhl)
    IN  /\ declared + alen <= limit.total
        /\ declared' = declared + alen
        /\ calls' = calls + 1
        /\ limit' = limit
        /\ attr_len' = alen
        /\ addpath' = (ap /\ go /\ n > 0)
        /\ pre' = update
        /\ hdr' = [afi |-> afi, safi |-> safi, nh_len |-> nhl, reserved |-> rsv]
        /\ mem' = afiOct \o <<safi, nhl>> \o nh \o <<rsv>>
        /\ pos' = 5 + nhl
        /\ plen_at' = 0
        /\ rd' = IF go THEN hrd \cup nrd ELSE hrd
        /\ ub' = OutOfBounds(hrd, alen)
        /\ isIPv4' = (afi = BGP_AFI_IPV4)
        /\ label' = <<0, 0, 0, 0>>
        /\ path_id' = 0
        /\ prefix_len' = 0
        /\ addr_bytes' = 0
        /\ read_size' = 0
        /\ copied' = 0
        /\ IF go
           THEN /\ ip_raw' = raw
                /\ update' = [update EXCEPT
                       !.attrs = SetNextHop(@, inet_ntop(afi = BGP_AFI_IPV4, raw))]
                /\ len' = n
                /\ pc' = EnterNlri(safi, n)
                /\ nlri' = IF n <= 0 THEN EmptyNlri
                           ELSE [EmptyNlri EXCEPT !.afi = afi, !.safi = safi]
           ELSE /\ ip_raw' = ZeroRaw
                /\ update' = update
                /\ len' = 0
                /\ pc' = "done"
                /\ nlri' = EmptyNlri

Call ==
    /\ pc = "idle"
    /\ calls < limit.calls
    /\ \E alen \in 0..limit.total, ap \in BOOLEAN, afiOct \in AfiOctets,
          safi \in SafiOctets, nhl \in NhLens, nhs \in NhStarts,
          rsv \in ReservedOctets :
           parseReachNlriAttr(alen, ap, afiOct, safi, nhl, nhs, rsv)

---------------------------------------------------------------------------
\* The add-path part of a prefix iteration, shared by both NLRI loops

\* the add-path test asking for more than 4 bytes left
TakePathIdStrict == addpath /\ (len - read_size) > 4

\* parser->getAddpathCapability(afi, safi) and (len - read_size) >= 4
TakePathId == addpath /\ (len - read_size) >= 4

\* bytes the path identifier takes in this iteration
PathIdSize == IF TakePathId THEN 4 ELSE 0

\* memcpy(&path_id, data, 4); SWAP_BYTES(&path_id), else path_id = 0
PathId(oct) == IF TakePathId THEN HostValue(SWAP_BYTES(oct)) ELSE 0

\* the for loop without its read_size++
NoIncrement(r) == r

\* the for loop's read_size++, at read_size r
NextReadSize(r) == r + 1

\* the for loop's read_size++ and its test read_size < len, at read_size r
LoopBack(r, again) == IF NextReadSize(r) < len THEN again ELSE "done"

---------------------------------------------------------------------------
\* parseNlriData_IPv4IPv6: one iteration of the prefix loop

UnicastPrefix(pidOct, pl, as) ==
    LET k     == PathIdSize
        ab    == AddrBytes(pl)
        addr  == Run(as, ab)
        raw   == CopyRaw(addr, ab)
        bytes == (IF k = 4 THEN pidOct ELSE <<>>) \o <<pl>> \o addr
        entry == [nlri EXCEPT
                    !.PATH_ID = Append(@, Digits(PathId(pidOct))),
                    !.PREFIX_LENGTH = Append(@, Digits(pl)),
                    !.PREFIX = Append(@, inet_ntop(isIPv4, raw)),
                    !.PREFIX_BIN = Append(@, SubSeq(raw, 1, 4))]
        reads == Offsets(pos, k + 1 + ab)
    IN  /\ pc = "uni"
        /\ path_id' = PathId(pidOct)
        /\ prefix_len' = pl
        /\ addr_bytes' = ab
        /\ ip_raw' = raw
        /\ copied' = ab
        /\ mem' = mem \o bytes
        /\ rd' = rd \cup reads
        /\ ub' = (ub \/ OutOfBounds(reads, attr_len) \/ ab > IP_RAW_SIZE)
        /\ pos' = pos + k + 1 + ab
        /\ plen_at' = pos + k
        /\ read_size' = NextReadSize(read_size + k + ab)
        /\ nlri' = entry
        /\ update' = [update EXCEPT !.nlri_list = Append(@, entry)]
        /\ pc' = LoopBack(read_size + k + ab, "uni")
        /\ UNCHANGED <<pre, attr_len, addpath, hdr, isIPv4, len, label, declared,
                       calls, limit>>

UnicastIter ==
    \E pidOct \in PathIdOctets, pl \in PrefixLens, as \in AddrStarts :
        UnicastPrefix(pidOct, pl, as)

---------------------------------------------------------------------------
\* parseNlriData_LabelIPv4IPv6: the start of a prefix iteration, up to the
\* label loop

\* while (addr_bytes >= 3), at ab bytes left for the prefix
LabelLoop(ab) == IF ab >= 3 THEN "label" ELSE "addr"

LabeledStart(pidOct, pl) ==
    LET k     == PathIdSize
        ab    == AddrBytes(pl)
        reads == Offsets(pos, k + 1)
        stop  == (parsed_bytes = len)
    IN  /\ pc = "lab"
        /\ path_id' = PathId(pidOct)
        /\ nlri' = [nlri EXCEPT !.PATH_ID = Append(@, Digits(PathId(pidOct)))]
        /\ IF stop
           THEN /\ pc' = "done"
                /\ mem' = mem \o (IF k = 4 THEN pidOct ELSE <<>>)
                /\ rd' = rd \cup Offsets(pos, k)
                /\ ub' = (ub \/ OutOfBounds(Offsets(pos, k), attr_len))
                /\ pos' = pos + k
                /\ UNCHANGED <<label, ip_raw, prefix_len, addr_bytes, plen_at>>
           ELSE /\ pc' = LabelLoop(ab)
                /\ mem' = mem \o (IF k = 4 THEN pidOct ELSE <<>>) \o <<pl>>
                /\ rd' = rd \cup reads
                /\ ub' = (ub \/ OutOfBounds(reads, attr_len))
                /\ pos' = pos + k + 1
                /\ plen_at' = pos + k
                /\ label' = <<0, 0, 0, 0>>
                /\ ip_raw' = ZeroRaw
                /\ prefix_len' = pl
                /\ addr_bytes' = ab
        /\ read_size' = read_size + k
        /\ UNCHANGED <<update, pre, attr_len, addpath, hdr, isIPv4, len, copied,
                       declared, calls, limit>>

LabeledIter ==
    \E pidOct \in PathIdOctets, pl \in PrefixLens : LabeledStart(pidOct, pl)

---------------------------------------------------------------------------
\* parseNlriData_LabelIPv4IPv6: one pass of the label loop

\* memcpy(&label.data, data, 3); SWAP_BYTES(&label.data): the fourth byte of
\* the union keeps what the previous pass left in it
ReadLabel(old, oct) == SWAP_BYTES(<<oct[1], oct[2], oct[3], old[4]>>)

\* prefix_len -= 24 on a u_char
SubLabelBits(pl) == (pl - 24) % 256

\* label.decode.bos == 1 or label.data == 0x80000000
EndOfStack(lb) == LabelBos(lb) = 1 \/ lb = WITHDRAWN_LABEL

LabelStep(oct) ==
    LET lb    == ReadLabel(label, oct)
        npl   == SubLabelBits(prefix_len)
        reads == Offsets(pos, 3)
    IN  /\ pc = "label"
        /\ label' = lb
        /\ mem' = mem \o oct
        /\ rd' = rd \cup reads
        /\ ub' = (ub \/ OutOfBounds(reads, attr_len))
        /\ pos' = pos + 3
        /\ addr_bytes' = addr_bytes - 3
        /\ read_size' = read_size + 3
        /\ prefix_len' = npl
        /\ nlri' = [nlri EXCEPT
                      !.PREFIX_LENGTH = Append(@, Digits(npl)),
                      !.LABELS = Append(@, Digits(LabelValue(lb)))]
        /\ pc' = IF EndOfStack(lb) THEN "addr" ELSE LabelLoop(addr_bytes - 3)
        /\ UNCHANGED <<update, pre, attr_len, addpath, hdr, isIPv4, len,
                       path_id, ip_raw, copied, plen_at, declared, calls, limit>>

LabelPass == \E oct \in LabelOctets : LabelStep(oct)

---------------------------------------------------------------------------
\* parseNlriData_LabelIPv4IPv6: the address part of a prefix iteration

LabeledAddress(as) ==
    LET addr  == Run(as, addr_bytes)
        raw   == CopyRaw(addr, addr_bytes)
        entry == [nlri EXCEPT
                    !.PREFIX = Append(@, inet_ntop(isIPv4, raw)),
                    !.PREFIX_BIN = Append(@, SubSeq(raw, 1, 4))]
        reads == Offsets(pos, addr_bytes)
    IN  /\ pc = "addr"
        /\ ip_raw' = raw
        /\ copied' = addr_bytes
        /\ mem' = mem \o addr
        /\ rd' = rd \cup reads
        /\ ub' = (ub \/ OutOfBounds(reads, attr_len) \/ addr_bytes > IP_RAW_SIZE)
        /\ pos' = pos + addr_bytes
        /\ read_size' = NextReadSize(read_size + addr_bytes)
        /\ nlri' = entry
        /\ update' = [update EXCEPT !.nlri_list = Append(@, entry)]
        /\ pc' = LoopBack(read_size + addr_bytes, "lab")
        /\ UNCHANGED <<pre, attr_len, addpath, hdr, isIPv4, len, path_id,
                       prefix_len, addr_bytes, label, plen_at, declared, calls,
                       limit>>

LabeledAddr == \E as \in AddrStarts : LabeledAddress(as)

---------------------------------------------------------------------------
\* An out-of-bounds read or write is undefined: the call may go on with the
\* bytes it found, or the process may die, and the update with it
Abort ==
    /\ ub
    /\ pc \in Running \cup {"done"}
    /\ pc' = "crashed"
    /\ update' = EmptyUpdate
    /\ pre' = EmptyUpdate
    /\ attr_len' = 0
    /\ addpath' = FALSE
    /\ hdr' = NoHdr
    /\ isIPv4' = FALSE
    /\ len' = 0
    /\ read_size' = 0
    /\ pos' = 0
    /\ plen_at' = 0
    /\ nlri' = EmptyNlri
    /\ path_id' = 0
    /\ prefix_len' = 0
    /\ addr_bytes' = 0
    /\ label' = <<0, 0, 0, 0>>
    /\ ip_raw' = ZeroRaw
    /\ copied' = 0
    /\ mem' = <<>>
    /\ rd' = {}
    /\ ub' = TRUE
    /\ declared' = 0
    /\ calls' = 0
    /\ UNCHANGED limit

\* parseReachNlriAttr returns to its caller: its locals are gone, the update
\* keeps what was written into it
Return ==
    /\ pc = "done"
    /\ pc' = "idle"
    /\ pre' = update
    /\ attr_len' = 0
    /\ addpath' = FALSE
    /\ hdr' = NoHdr
    /\ isIPv4' = FALSE
    /\ len' = 0
    /\ read_size' = 0
    /\ pos' = 0
    /\ plen_at' = 0
    /\ nlri' = EmptyNlri
    /\ path_id' = 0
    /\ prefix_len' = 0
    /\ addr_bytes' = 0
    /\ label' = <<0, 0, 0, 0>>
    /\ ip_raw' = ZeroRaw
    /\ copied' = 0
    /\ mem' = <<>>
    /\ rd' = {}
    /\ ub' = FALSE
    /\ UNCHANGED <<update, declared, calls, limit>>

Next ==
    \/ Call
    \/ Return
    \/ UnicastIter
    \/ LabeledIter
    \/ LabelPass
    \/ LabeledAddr
    \/ Abort

Spec == Init /\ [][Next]_vars

SpecSeq == InitSeq /\ [][Next]_vars

\* The decoder is straight-line code on one thread: once called it keeps taking
\* its next step until it returns or the process dies
SpecFair ==
    Spec /\ WF_vars(UnicastIter \/ LabeledIter \/ LabelPass \/ LabeledAddr)

---------------------------------------------------------------------------
\* The wire format, as RFC 4760 and RFC 3107 give it, to compare the decoder with

\* big-endian value of the octets b
RECURSIVE BigEndian(_)
BigEndian(b) ==
    IF Len(b) = 0 THEN 0
    ELSE 256 * BigEndian(SubSeq(b, 1, Len(b) - 1)) + b[Len(b)]

\* octets a prefix of l bits takes
WireBytes(l) == (l + 7) \div 8

\* the prefixes a unicast NLRI body encodes, in wire order
RECURSIVE WirePrefixes(_)
WirePrefixes(b) ==
    IF Len(b) = 0 THEN <<>>
    ELSE <<[bits |-> b[1], addr |-> SubSeq(b, 2, 1 + WireBytes(b[1]))]>>
         \o WirePrefixes(SubSeq(b, 2 + WireBytes(b[1]), Len(b)))

\* an address of n octets, zero-padded to 16
Padded(a) == [i \in 1..16 |-> IF i <= Len(a) THEN a[i] ELSE 0]

\* the payload octets at offsets from .. to-1
Payload(from, to) == SubSeq(mem, from + 1, to)

\* the NLRI span of the current call
NlriBody == Payload(5 + hdr.nh_len, attr_len)

\* entries the current call appended to the caller's list
Appended ==
    SubSeq(update.nlri_list, Len(pre.nlri_list) + 1, Len(update.nlri_list))

\* the call got past the length check into a supported AFI and SAFI
Dispatched ==
    /\ attr_len >= 5 + hdr.nh_len
    /\ hdr.afi \in {BGP_AFI_IPV4, BGP_AFI_IPV6}
    /\ hdr.safi \in {BGP_SAFI_UNICAST, BGP_SAFI_NLRI_LABEL}

\* a decoder step of the current call was just taken (the process did not die)
Stepped(from) == pc \in from /\ pc' # "crashed"

---------------------------------------------------------------------------
\* C1: every payload byte a call reads lies at an offset below the declared
\* attribute length.
C1_ReadsInBounds == \A o \in rd : o < attr_len

\* C2: a call whose declared length is smaller than the header it carries
\* (attr_len < 5 + next-hop length) ends without entering a decoder and leaves
\* the caller's update as it was: no entry appended, no next hop written.
C2_ShortHeaderLeavesUpdate ==
    (pc \in Running \cup {"done"} /\ attr_len < 5 + hdr.nh_len)
        => (pc = "done" /\ update = pre)

\* C2 witness: a call on an update that already holds a next hop and entries,
\* with a supported AFI and SAFI, one byte short of its header
C2_Witness ==
    /\ pc = "done"
    /\ attr_len = 4 + hdr.nh_len
    /\ hdr.afi = BGP_AFI_IPV4
    /\ hdr.safi = BGP_SAFI_UNICAST
    /\ Len(pre.nlri_list) > 0

\* a well-formed unicast body with add-path off was decoded to its end
UnicastDecoded ==
    /\ pc = "done"
    /\ Dispatched
    /\ hdr.safi = BGP_SAFI_UNICAST
    /\ ~addpath
    /\ ~ub
    /\ pos = attr_len
    /\ \A k \in 1..Len(WirePrefixes(NlriBody)) :
          WirePrefixes(NlriBody)[k].bits <= (IF isIPv4 THEN 32 ELSE 128)

\* C3: a well-formed unicast body encoding P1..Pn, add-path off, appends n
\* entries in wire order, the k-th holding exactly one path identifier (0), one
\* prefix length and one address, those of Pk.
C3_RoundTrip ==
    UnicastDecoded =>
        LET P == WirePrefixes(NlriBody)
        IN  /\ Len(Appended) = Len(P)
            /\ \A k \in 1..Len(P) :
                  /\ Appended[k].PATH_ID = <<Digits(0)>>
                  /\ Appended[k].PREFIX_LENGTH = <<Digits(P[k].bits)>>
                  /\ Appended[k].PREFIX = <<inet_ntop(isIPv4, Padded(P[k].addr))>>

\* C4: after a call with a supported AFI and SAFI the next-hop attribute holds
\* exactly one value, the next-hop text of that call.
C4_NextHopOverwritten ==
    (pc = "done" /\ Dispatched) =>
        update.attrs["LIB_ATTR_NEXT_HOP"].attr_value =
            <<inet_ntop(isIPv4,
                Padded(Payload(4, 4 + (IF hdr.nh_len > 16 THEN 16 ELSE hdr.nh_len))))>>

\* the labels read for the current prefix, as the octets on the wire
StackSize == (pos - plen_at - 1) \div 3
StackLabel(i) == Payload(plen_at + 1 + 3 * (i - 1), plen_at + 1 + 3 * i)
WireBos(l) == l[3] % 2
WireValue(l) == BigEndian(l) \div 16
Withdrawn(l) == l = <<128, 0, 0>>

\* the current prefix carries a well-formed stack of k >= 1 labels inside the
\* attribute: bottom-of-stack clear on all but the last, no withdrawn label,
\* and a combined length that covers them
WellFormedStack ==
    /\ ~ub
    /\ StackSize >= 1
    /\ mem[plen_at + 1] >= 24 * StackSize
    /\ \A i \in 1..StackSize : ~Withdrawn(StackLabel(i))
    /\ \A i \in 1..(StackSize - 1) : WireBos(StackLabel(i)) = 0
    /\ WireBos(StackLabel(StackSize)) = 1

\* C5: a labeled prefix of combined length L that lies inside the attribute,
\* with a stack of k labels, yields an entry whose label list is the k label
\* values in wire order, with the single prefix length L - 24*k and
\* ceil(L/8) - 3*k address bytes.
C5_LabeledEntry ==
    [][(/\ Stepped({"addr"})
        /\ WellFormedStack
        /\ ~ub'
        /\ plen_at + 1 + WireBytes(mem[plen_at + 1]) <= attr_len) =>
         LET k == StackSize
             L == mem[plen_at + 1]
             e == update'.nlri_list[Len(update'.nlri_list)]
         IN  /\ e.LABELS = [i \in 1..k |-> Digits(WireValue(StackLabel(i)))]
             /\ e.PREFIX_LENGTH = <<Digits(L - 24 * k)>>
             /\ copied' = WireBytes(L) - 3 * k]_vars

\* C6: in a prefix that lies inside the attribute, a label read as the octets
\* 0x80 0x00 0x00 ends the label loop of its prefix, whatever its position in
\* the stack: the next step takes the remaining bytes as the address.
C6_WithdrawnEndsStack ==
    [][(/\ Stepped({"label"})
        /\ ~ub'
        /\ plen_at + 1 + WireBytes(mem[plen_at + 1]) <= attr_len
        /\ Withdrawn(SubSeq(mem', pos + 1, pos + 3)))
         => pc' = "addr"]_vars

\* C7: in an iteration of either NLRI loop, with add-path on and at least 4
\* bytes of the span left (the span ends at the declared attribute length) the
\* next 4 bytes are taken as the big-endian path identifier and the byte after
\* them as the prefix length; with add-path off no byte is taken for a path
\* identifier, the path identifier is 0 and the first byte of the iteration
\* is the prefix length.
C7_AddPath ==
    [][Stepped({"uni", "lab"}) =>
         LET took == pos' - pos - 1 - (IF pc = "uni" THEN copied' ELSE 0)
         IN  /\ nlri'.PATH_ID = Append(nlri.PATH_ID, Digits(path_id'))
             /\ (addpath /\ attr_len - pos >= 4) =>
                   /\ took = 4
                   /\ path_id' = BigEndian(SubSeq(mem', pos + 1, pos + 4))
                   /\ prefix_len' = mem'[pos + 5]
                   /\ plen_at' = pos + 4
             /\ ~addpath =>
                   /\ took = 0
                   /\ path_id' = 0
                   /\ prefix_len' = mem'[pos + 1]
                   /\ plen_at' = pos]_vars

\* C7 witness: an iteration that took the path identifier 0x01000002 and then
\* the prefix length 32
C7_Witness ==
    /\ pc \in Running
    /\ addpath
    /\ path_id = 16777218
    /\ prefix_len = 32
    /\ plen_at = pos - 1

\* C8: decoding always ends: every prefix iteration of either loop moves
\* read_size up by at least 1, every pass of the label loop takes 3 off the
\* prefix's remaining bytes, a call appends at most len entries, and a call
\* that entered a loop comes to its return (or the process dies).
C8_Terminates ==
    /\ (pc \in Running) ~> (pc \in {"done", "crashed"})
    /\ [][Stepped(Running) =>
            /\ pc \in {"uni", "addr"} => read_size' >= read_size + 1
            /\ pc = "lab" => read_size' >= read_size
            /\ pc = "label" =>
                  /\ addr_bytes' = addr_bytes - 3
                  /\ addr_bytes' >= 0
                  /\ read_size' > read_size
            /\ pc' \in {"uni", "lab"} => read_size' < len
            /\ Len(update'.nlri_list) - Len(pre.nlri_list) <= len
            /\ Len(update'.nlri_list) - Len(pre.nlri_list) <= read_size']_vars

\* C8 witness: a zero-length prefix, which takes the single byte of its length,
\* was decoded and the loop goes on
C8_Witness ==
    /\ pc \in {"uni", "lab"}
    /\ ~addpath
    /\ prefix_len = 0
    /\ read_size >= 2
    /\ Len(update.nlri_list) >= 2

\* C9: when the labeled decoder takes 24 bits off the 8-bit prefix length for
\* a label of a prefix that lies inside the attribute, the prefix length is at
\* least 24 and goes down by 24.
C9_NoWrap ==
    [][(/\ Stepped({"label"})
        /\ ~ub'
        /\ plen_at + 1 + WireBytes(mem[plen_at + 1]) <= attr_len)
         => (prefix_len >= 24 /\ prefix_len' = prefix_len - 24)]_vars

\* C10: no copy into the 16-byte address buffer is longer than the buffer.
C10_CopyFits == copied <= IP_RAW_SIZE

====
